---- MODULE Spec2Model ----
(***************************************************************************)
(* The Alyx Python function executor: the HTTP listener of                 *)
(* runtimes/python/executor.py (function cache, loader, /invoke and        *)
(* /clear-cache) and the SDK of runtimes/python/alyx_functions             *)
(* (logger, input validation, execute_function).                           *)
(*                                                                         *)
(* Python values are records tagged by "kind"; a dict is a function from   *)
(* its keys to values; an exception is a record tagged by its class.       *)
(***************************************************************************)
EXTENDS Integers, Sequences, FiniteSets, TLC

VARIABLES
    fs,              \* the functions root (FUNCTIONS_DIR) on storage
    function_cache,  \* executor.py: function_cache
    alive,           \* the executor process is running
    request,         \* body of the last POST the listener handled
    wire,            \* what the listener wrote to the socket for it
    trace,           \* what handling it did (loads, storage reads, handler runs)
    history,         \* what load_function returned since the last clear, and what
                     \* that clear dropped
    engine,          \* one call of an SDK function: execute_function (SpecExec),
                     \* validate_input (SpecValidate), CollectionClient.find (SpecFind)
    threads          \* the threads inside load_function (SpecLoad)

vars == <<fs, function_cache, alive, request, wire, trace, history, engine, threads>>

----------------------------------------------------------------------------
(* Python values *)

PyNone == [kind |-> "null"]
Absent == [kind |-> "absent"]
PyStr(s) == [kind |-> "string", s |-> s]
PyInt(n) == [kind |-> "int", n |-> n]
PyFloat == [kind |-> "float"]
PyBool(b) == [kind |-> "boolean", b |-> b]
PyList(n) == [kind |-> "array", len |-> n]
PyDict(m) == [kind |-> "object", m |-> m]
\* a schema dict: its (field name, rules) items in declaration order
PySchema(items) == [kind |-> "schema", items |-> items]
Opaque == [kind |-> "opaque"]
EmptyDict == PyDict(<<>>)

\* Python truth value of v (if v: ...)
Truthy(v) ==
    CASE v.kind = "null" -> FALSE
      [] v.kind = "string" -> v.s # ""
      [] v.kind = "int" -> v.n # 0
      [] v.kind = "boolean" -> v.b
      [] v.kind = "array" -> v.len # 0
      [] v.kind = "object" -> DOMAIN v.m # {}
      [] v.kind = "schema" -> Len(v.items) # 0
      [] OTHER -> TRUE

\* dict.get(key, default) on the dict d
Get(d, key, default) == IF key \in DOMAIN d.m THEN d.m[key] ELSE default

\* what a Python call does: it returns a value or raises an exception
Return(v) == [kind |-> "return", value |-> v]
Raise(e) == [kind |-> "raise", exc |-> e]

\* no call was made
NoResult == [kind |-> "none"]

Exc(cls, msg) == [cls |-> cls, msg |-> msg]

FunctionError(code, message, details) ==
    [cls |-> "FunctionError", code |-> code, message |-> message, details |-> details]

\* classes that derive from BaseException but not from Exception
BaseOnly == {"SystemExit", "KeyboardInterrupt"}

\* isinstance(e, Exception)
IsException(e) == e.cls \notin BaseOnly

\* json.dumps accepts v
RECURSIVE Encodable(_)
Encodable(v) ==
    CASE v.kind = "opaque" -> FALSE
      [] v.kind = "object" -> \A k \in DOMAIN v.m : Encodable(v.m[k])
      [] OTHER -> TRUE

----------------------------------------------------------------------------
(* alyx_functions: Logger *)

\* LogEntry(level=..., message=..., data=...) with its default timestamp
LogEntry(level, message, data) ==
    [level |-> level, message |-> message, data |-> data, timestamp |-> "utcnow"]

\* a logger that puts the newest entry first
Logger_log_Prepend(logs, level, message, data) ==
    <<LogEntry(level, message, IF Truthy(data) THEN data ELSE EmptyDict)>> \o logs

Logger_log(logs, level, message, data) ==
    Append(logs, LogEntry(level, message, IF Truthy(data) THEN data ELSE EmptyDict))

Logger_debug(logs, message, data) == Logger_log(logs, "debug", message, data)
Logger_info(logs, message, data) == Logger_log(logs, "info", message, data)
Logger_warn(logs, message, data) == Logger_log(logs, "warn", message, data)
Logger_error(logs, message, data) == Logger_log(logs, "error", message, data)

\* one call the handler makes on context.log
LoggerCall(logs, call) ==
    CASE call.method = "debug" -> Logger_debug(logs, call.message, call.data)
      [] call.method = "info" -> Logger_info(logs, call.message, call.data)
      [] call.method = "warn" -> Logger_warn(logs, call.message, call.data)
      [] call.method = "error" -> Logger_error(logs, call.message, call.data)

----------------------------------------------------------------------------
(* alyx_functions: CollectionClient._request *)

\* json.loads(body): a body is given by what it parses to; Garbage does not parse
Garbage == [kind |-> "garbage"]
json_loads(body) ==
    IF body = Garbage THEN Raise(Exc("JSONDecodeError", "Expecting value"))
    ELSE Return(body)

\* the except HTTPError clause: the message of a JSON error body, else the status
HttpErrorMessage(code, error) ==
    IF error.kind = "raise" THEN "Request failed with status " \o ToString(code)
    ELSE Get(error.value, "message",
             PyStr("Request failed with status " \o ToString(code))).s

\* CollectionClient._request on what urlopen does: it answers, it raises HTTPError
\* (a status and an error body), or it raises URLError (a reason)
CollectionClient_request(reply) ==
    CASE reply.kind = "ok" -> json_loads(reply.body)
      [] reply.kind = "HTTPError" ->
            Raise(Exc("Exception", HttpErrorMessage(reply.code, json_loads(reply.body))))
      [] reply.kind = "URLError" ->
            Raise(Exc("Exception", "Connection error: " \o reply.reason))

----------------------------------------------------------------------------
(* alyx_functions: CollectionClient.find *)

\* str(v), as an f-string formats v
Str(v) ==
    CASE v.kind = "string" -> v.s
      [] v.kind = "int" -> ToString(v.n)
      [] v.kind = "boolean" -> IF v.b THEN "True" ELSE "False"
      [] v.kind = "null" -> "None"

\* "&".join(params)
RECURSIVE Join(_)
Join(params) ==
    IF Len(params) = 1 THEN params[1]
    ELSE params[1] \o "&" \o Join(Tail(params))

\* for key, value in filter.items(): params.append(f"filter={key}:eq:{value}")
FilterParams(filter) ==
    [i \in 1..Len(filter.items) |->
        "filter=" \o filter.items[i][1] \o ":eq:" \o Str(filter.items[i][2])]

\* the params list find builds (lines 107-116)
FindParams(collection, filter, sort, limit, offset) ==
    <<"collection=" \o collection>>
    \o (IF Truthy(filter) THEN FilterParams(filter) ELSE <<>>)
    \o (IF Truthy(sort) THEN <<"sort=" \o Str(sort)>> ELSE <<>>)
    \o (IF Truthy(limit) THEN <<"limit=" \o Str(limit)>> ELSE <<>>)
    \o (IF Truthy(offset) THEN <<"offset=" \o Str(offset)>> ELSE <<>>)

\* result.get("data", []) on what _request returned or raised
FindData(result) ==
    IF result.kind = "raise" THEN result
    ELSE Return(Get(result.value, "data", PyList(0)))

\* CollectionClient.find: the request it issues, and what it returns or raises
\* given what urlopen does
CollectionClient_find(collection, filter, sort, limit, offset, reply) ==
    [method |-> "GET",
     path |-> "/internal/v1/db/query?"
                  \o Join(FindParams(collection, filter, sort, limit, offset)),
     result |-> FindData(CollectionClient_request(reply))]

----------------------------------------------------------------------------
(* alyx_functions: FunctionDefinition, validate_input *)

FunctionDefinition(handler, input_schema) ==
    [kind |-> "FunctionDefinition", handler |-> handler,
     input_schema |-> input_schema, output_schema |-> PyNone]

\* isinstance(value, type_map[expected_type]); bool is a subclass of int
IsInstanceOf(value, expected_type) ==
    CASE expected_type = "string" -> value.kind = "string"
      [] expected_type = "number" -> value.kind \in {"int", "float", "boolean"}
      [] expected_type = "boolean" -> value.kind = "boolean"
      [] expected_type = "array" -> value.kind = "array"
      [] expected_type = "object" -> value.kind = "object"

TypeMapKeys == {"string", "number", "boolean", "array", "object"}

\* the body of the for loop of validate_input for one schema item:
\* Return(PyNone) when no rule of the field raises
ValidateField(input_data, field_name, rules) ==
    LET value == Get(input_data, field_name, PyNone)
        expected_type == Get(rules, "type", PyNone)
        min_length == Get(rules, "min_length", PyNone)
        max_length == Get(rules, "max_length", PyNone)
    IN  IF Truthy(Get(rules, "required", PyNone)) /\ value = PyNone
        THEN Raise(FunctionError("VALIDATION_ERROR",
                 "Field '" \o field_name \o "' is required",
                 PyDict("field" :> PyStr(field_name))))
        ELSE IF value # PyNone /\ Truthy(expected_type)
                /\ expected_type.s \in TypeMapKeys
                /\ ~IsInstanceOf(value, expected_type.s)
        THEN Raise(FunctionError("VALIDATION_ERROR",
                 "Field '" \o field_name \o "' must be of type " \o expected_type.s,
                 PyDict(("field" :> PyStr(field_name)) @@ ("expected" :> expected_type))))
        ELSE IF value # PyNone /\ Truthy(min_length) /\ value.kind = "string"
                /\ Len(value.s) < min_length.n
        THEN Raise(FunctionError("VALIDATION_ERROR",
                 "Field '" \o field_name \o "' must be at least "
                     \o ToString(min_length.n) \o " characters",
                 PyDict(("field" :> PyStr(field_name)) @@ ("min_length" :> min_length))))
        ELSE IF value # PyNone /\ Truthy(max_length) /\ value.kind = "string"
                /\ Len(value.s) > max_length.n
        THEN Raise(FunctionError("VALIDATION_ERROR",
                 "Field '" \o field_name \o "' must be at most "
                     \o ToString(max_length.n) \o " characters",
                 PyDict(("field" :> PyStr(field_name)) @@ ("max_length" :> max_length))))
        ELSE Return(PyNone)

\* the for loop of validate_input from item i on
RECURSIVE ValidateFrom(_, _, _)
ValidateFrom(input_data, schema, i) ==
    IF i > Len(schema.items) THEN Return(PyNone)
    ELSE IF input_data.kind # "object"
    THEN Raise(Exc("AttributeError", "object has no attribute 'get'"))
    ELSE LET r == ValidateField(input_data, schema.items[i][1], schema.items[i][2])
         IN  IF r.kind = "raise" THEN r ELSE ValidateFrom(input_data, schema, i + 1)

validate_input(input_data, schema) == ValidateFrom(input_data, schema, 1)

----------------------------------------------------------------------------
(* alyx_functions: execute_function *)

\* AuthContext(id=auth_data.get("id", ""), email=..., role=..., verified=..., metadata=...)
AuthContext(auth_data) ==
    [kind |-> "AuthContext",
     id |-> Get(auth_data, "id", PyStr("")),
     email |-> Get(auth_data, "email", PyStr("")),
     role |-> Get(auth_data, "role", PyNone),
     verified |-> Get(auth_data, "verified", PyBool(FALSE)),
     metadata |-> Get(auth_data, "metadata", PyNone)]

\* the statements of execute_function before its try block: the FunctionContext
\* handed to the handler, or the AttributeError of a .get on what is no dict
BuildContext(req) ==
    LET context_data == Get(req, "context", EmptyDict)
    IN  IF context_data.kind # "object"
        THEN Raise(Exc("AttributeError", "object has no attribute 'get'"))
        ELSE LET auth_data == Get(context_data, "auth", PyNone)
             IN  IF Truthy(auth_data) /\ auth_data.kind # "object"
                 THEN Raise(Exc("AttributeError", "object has no attribute 'get'"))
                 ELSE Return(
                     [auth |-> IF Truthy(auth_data) THEN AuthContext(auth_data) ELSE PyNone,
                      env |-> Get(context_data, "env", EmptyDict),
                      alyx_url |-> Get(context_data, "alyx_url", PyStr("")),
                      internal_token |-> Get(context_data, "internal_token", PyStr(""))])

\* the handler appends to the log buffer through context.log, call by call
RECURSIVE RunCalls(_, _)
RunCalls(logs, calls) ==
    IF calls = <<>> THEN logs
    ELSE RunCalls(LoggerCall(logs, Head(calls)), Tail(calls))

\* function_def.handler(input, context): the handler is user code; run says what it
\* does this time (its logger calls, then a return or a raise, and the time it took)
CallHandler(logs, run) ==
    [logs |-> RunCalls(logs, run.calls), result |-> run.outcome, invoked |-> 1]

\* the try block after validation: the handler is called unless validation raised
TryChecked(checked, run) ==
    IF checked.kind = "raise"
    THEN [logs |-> <<>>, result |-> checked, invoked |-> 0]
    ELSE CallHandler(<<>>, run)

\* the try block of execute_function up to the handler's return
TryBlock(function_def, req, run) ==
    TryChecked(IF Truthy(function_def.input_schema)
               THEN validate_input(Get(req, "input", EmptyDict), function_def.input_schema)
               ELSE Return(PyNone),
               run)

\* [... for log in logs]
LogDicts(logs) ==
    [i \in 1..Len(logs) |->
        [level |-> logs[i].level, message |-> logs[i].message,
         data |-> logs[i].data, timestamp |-> logs[i].timestamp]]

\* the return of the try block (lines 322-338)
SuccessResponse(req, output, logs, duration_ms) ==
    [request_id |-> Get(req, "request_id", PyNone), success |-> TRUE,
     output |-> output, logs |-> LogDicts(logs), duration_ms |-> duration_ms]

\* an except clause that replaces missing details by {} (as the logger does for data)
FunctionErrorResponse_DefaultDetails(req, e, logs, duration_ms) ==
    [request_id |-> Get(req, "request_id", PyNone), success |-> FALSE,
     error |-> [code |-> e.code, message |-> e.message,
                details |-> IF Truthy(e.details) THEN e.details ELSE EmptyDict],
     logs |-> LogDicts(logs), duration_ms |-> duration_ms]

\* except FunctionError as e (lines 340-360)
FunctionErrorResponse(req, e, logs, duration_ms) ==
    [request_id |-> Get(req, "request_id", PyNone), success |-> FALSE,
     error |-> [code |-> e.code, message |-> e.message, details |-> e.details],
     logs |-> LogDicts(logs), duration_ms |-> duration_ms]

\* an except clause that keeps an output key next to the error
FaultResponse_WithOutput(req, e, logs, duration_ms) ==
    [request_id |-> Get(req, "request_id", PyNone), success |-> FALSE,
     output |-> PyNone,
     error |-> [code |-> "FUNCTION_ERROR", message |-> e.msg, details |-> EmptyDict],
     logs |-> LogDicts(logs), duration_ms |-> duration_ms]

\* an except clause that reports the class of the fault instead of its description
FaultResponse_ClassName(req, e, logs, duration_ms) ==
    [request_id |-> Get(req, "request_id", PyNone), success |-> FALSE,
     error |-> [code |-> "FUNCTION_ERROR", message |-> e.cls, details |-> EmptyDict],
     logs |-> LogDicts(logs), duration_ms |-> duration_ms]

\* except Exception as e (lines 362-382); str(e) is the exception's message
FaultResponse(req, e, logs, duration_ms) ==
    [request_id |-> Get(req, "request_id", PyNone), success |-> FALSE,
     error |-> [code |-> "FUNCTION_ERROR", message |-> e.msg, details |-> EmptyDict],
     logs |-> LogDicts(logs), duration_ms |-> duration_ms]

\* what execute_function does with the outcome t of its try block: the three
\* return statements, and no except clause for what is no Exception
Assemble(req, run, t) ==
    IF t.result.kind = "return"
    THEN Return(SuccessResponse(req, t.result.value, t.logs, run.duration_ms))
    ELSE IF t.result.exc.cls = "FunctionError"
    THEN Return(FunctionErrorResponse(req, t.result.exc, t.logs, run.duration_ms))
    ELSE IF IsException(t.result.exc)
    THEN Return(FaultResponse(req, t.result.exc, t.logs, run.duration_ms))
    ELSE t.result

\* execute_function once the context is built
Execute(req, run, built, t) ==
    [result |-> Assemble(req, run, t),
     invoked |-> t.invoked,
     made |-> IF t.invoked = 1 THEN run.calls ELSE <<>>,
     outcome |-> IF t.invoked = 1 THEN run.outcome ELSE NoResult,
     context |-> IF t.invoked = 1 THEN built.value ELSE PyNone]

\* execute_function from its context on: an exception while building the context
\* is outside the try block
ExecuteBuilt(function_def, req, run, built) ==
    IF built.kind = "raise"
    THEN [result |-> built, invoked |-> 0, made |-> <<>>, outcome |-> NoResult,
          context |-> PyNone]
    ELSE Execute(req, run, built, TryBlock(function_def, req, run))

\* execute_function(function_def, request): result is the response returned or the
\* exception that leaves it; invoked counts the handler calls, made is what the
\* handler asked of the logger, outcome how the handler ended, context what it
\* was given
execute_function(function_def, req, run) ==
    ExecuteBuilt(function_def, req, run, BuildContext(req))

----------------------------------------------------------------------------
(* Bounds and the inputs drawn from them *)

MaxLogs == 2        \* logger calls of one handler run
MaxDuration == 1    \* elapsed milliseconds of one invocation

RECURSIVE SeqsUpTo(_, _)
SeqsUpTo(S, n) ==
    IF n = 0 THEN {<<>>}
    ELSE LET shorter == SeqsUpTo(S, n - 1)
         IN  shorter \cup {Append(q, x) : q \in {r \in shorter : Len(r) = n - 1}, x \in S}

\* calls a handler makes on context.log: each method, with and without data
LogCalls ==
    { [method |-> "debug", message |-> "x", data |-> PyNone],
      [method |-> "info", message |-> "x", data |-> PyDict("k" :> PyInt(1))],
      [method |-> "warn", message |-> "y", data |-> EmptyDict],
      [method |-> "error", message |-> "y", data |-> PyNone] }

\* what the internal API does to a call of the database facade that fails
FailedReplies ==
    { [kind |-> "HTTPError", code |-> 404, body |-> PyDict("message" :> PyStr("no such document"))],
      [kind |-> "HTTPError", code |-> 502, body |-> Garbage],
      [kind |-> "URLError", reason |-> "refused"] }

\* how a handler run ends: it returns a value (one of them not JSON-encodable) or
\* raises a FunctionError, lets an error of the database facade through, raises
\* another Exception, or raises what is no Exception (sys.exit())
Outcomes ==
    { Return(PyDict("message" :> PyStr("Hello"))),
      Return(Opaque),
      Raise(FunctionError("NOT_ALLOWED", "no", PyNone)),
      Raise(FunctionError("NOT_ALLOWED", "no", PyDict("why" :> PyStr("role")))),
      Raise(Exc("FileNotFoundError", "No such file or directory: 'data.txt'")),
      Raise(Exc("SystemExit", "1")) }
    \cup {CollectionClient_request(reply) : reply \in FailedReplies}

RunsWith(calls) ==
    [calls : calls, outcome : Outcomes, duration_ms : 0..MaxDuration]

Runs == RunsWith(SeqsUpTo(LogCalls, MaxLogs))

\* input_schema values of the function definitions: none, an empty one, the one of
\* the specification's scenario, a two-field one, and one with a bound of 0
NameMin2 ==
    PySchema(<< <<"name", PyDict(("required" :> PyBool(TRUE)) @@ ("type" :> PyStr("string"))
                              @@ ("min_length" :> PyInt(2)))>> >>)
NameMax2Age ==
    PySchema(<< <<"name", PyDict(("type" :> PyStr("string")) @@ ("max_length" :> PyInt(2)))>>,
                <<"age", PyDict("type" :> PyStr("number"))>> >>)
NameMax0 ==
    PySchema(<< <<"name", PyDict(("type" :> PyStr("string")) @@ ("max_length" :> PyInt(0)))>> >>)

Schemas == {PyNone, PySchema(<<>>), NameMin2, NameMax2Age, NameMax0}

\* a dict with the keys of m whose value is not Absent
DictOf(m) == PyDict([k \in {x \in DOMAIN m : m[x] # Absent} |-> m[k]])

InputDicts ==
    { DictOf([name |-> n, age |-> a]) :
        n \in {Absent, PyStr("A"), PyStr("Ann"), PyInt(5)},
        a \in {Absent, PyInt(5), PyBool(TRUE)} }

\* the "input" of a request: no such key, null, or an object
Inputs == {Absent, PyNone} \cup InputDicts

RequestIds == {Absent, PyStr("r1")}

\* the "context" of a request: no such key, null, or an object
Contexts == {Absent, PyNone}

----------------------------------------------------------------------------
(* executor.py: the functions root, find_function_entry, load_function *)

Names == {"f", "g"}

\* entry files under FUNCTIONS_DIR: <name>/index.py and <name>.py
IndexPath(name) == [kind |-> "path", name |-> name, entry |-> "index.py"]
DirectPath(name) == [kind |-> "path", name |-> name, entry |-> ".py"]

\* a lookup that tries the flat file first
find_function_entry_FlatFirst(files, name) ==
    IF name.kind # "string"
    THEN Raise(Exc("TypeError", "unsupported operand type(s) for /"))
    ELSE IF name.s \in DOMAIN files.direct /\ files.direct[name.s] # Absent
    THEN Return(DirectPath(name.s))
    ELSE IF name.s \in files.dirs /\ files.index[name.s] # Absent
    THEN Return(IndexPath(name.s))
    ELSE Return(PyNone)

\* find_function_entry(name) on the storage state files
find_function_entry(files, name) ==
    IF name.kind # "string"
    THEN Raise(Exc("TypeError", "unsupported operand type(s) for /"))
    ELSE IF name.s \in files.dirs /\ files.index[name.s] # Absent
    THEN Return(IndexPath(name.s))
    ELSE IF name.s \in DOMAIN files.direct /\ files.direct[name.s] # Absent
    THEN Return(DirectPath(name.s))
    ELSE Return(PyNone)

\* the source file at path
ReadFile(files, path) ==
    IF path.entry = "index.py" THEN files.index[path.name] ELSE files.direct[path.name]

\* spec.loader.exec_module(module): the module's top-level code runs; it raises, or
\* leaves the module's attributes
exec_module(source) ==
    IF source.top = "raises" THEN Raise(source.exc) ELSE Return(source)

\* a loader that returns the definition without caching it
LoadModule_NoStore(name, cache, module) ==
    IF module.kind = "raise"
    THEN [result |-> module, cache |-> cache, reads |-> 1]
    ELSE IF module.value.default = Absent
    THEN [result |-> Raise(Exc("ValueError",
              "Function '" \o name.s \o "' does not export a 'default' FunctionDefinition")),
          cache |-> cache, reads |-> 1]
    ELSE IF module.value.default.kind # "FunctionDefinition"
    THEN [result |-> Raise(Exc("ValueError",
              "Function '" \o name.s \o "' default export is not a FunctionDefinition")),
          cache |-> cache, reads |-> 1]
    ELSE [result |-> Return(module.value.default), cache |-> cache, reads |-> 1]

\* a loader that caches the default export before it checks what it is
LoadModule_StoreUnchecked(name, cache, module) ==
    IF module.kind = "raise"
    THEN [result |-> module, cache |-> cache, reads |-> 1]
    ELSE IF module.value.default = Absent
    THEN [result |-> Raise(Exc("ValueError",
              "Function '" \o name.s \o "' does not export a 'default' FunctionDefinition")),
          cache |-> cache, reads |-> 1]
    ELSE IF module.value.default.kind # "FunctionDefinition"
    THEN [result |-> Raise(Exc("ValueError",
              "Function '" \o name.s \o "' default export is not a FunctionDefinition")),
          cache |-> (name.s :> module.value.default) @@ cache, reads |-> 1]
    ELSE [result |-> Return(module.value.default),
          cache |-> (name.s :> module.value.default) @@ cache,
          reads |-> 1]

\* load_function after exec_module (lines 64-76)
LoadModule(name, cache, module) ==
    IF module.kind = "raise"
    THEN [result |-> module, cache |-> cache, reads |-> 1]
    ELSE IF module.value.default = Absent
    THEN [result |-> Raise(Exc("ValueError",
              "Function '" \o name.s \o "' does not export a 'default' FunctionDefinition")),
          cache |-> cache, reads |-> 1]
    ELSE IF module.value.default.kind # "FunctionDefinition"
    THEN [result |-> Raise(Exc("ValueError",
              "Function '" \o name.s \o "' default export is not a FunctionDefinition")),
          cache |-> cache, reads |-> 1]
    ELSE [result |-> Return(module.value.default),
          cache |-> (name.s :> module.value.default) @@ cache,
          reads |-> 1]

\* load_function after find_function_entry (lines 53-62); spec_from_file_location
\* finds a loader for every .py path
LoadEntry(name, cache, files, function_path) ==
    IF function_path.kind = "raise"
    THEN [result |-> function_path, cache |-> cache, reads |-> 0]
    ELSE IF function_path.value = PyNone
    THEN [result |-> Raise(Exc("FileNotFoundError",
                               "Function '" \o name.s \o "' not found")),
          cache |-> cache, reads |-> 1]
    ELSE LoadModule(name, cache, exec_module(ReadFile(files, function_path.value)))

\* a loader that never looks into the cache
load_function_NoCache(name, cache, files) ==
    LoadEntry(name, cache, files, find_function_entry(files, name))

\* load_function(name) with the cache and the storage it reads: the definition
\* returned or the exception raised, the cache afterwards, and whether storage was read
load_function(name, cache, files) ==
    IF name.kind = "string" /\ name.s \in DOMAIN cache
    THEN [result |-> Return(cache[name.s]), cache |-> cache, reads |-> 0]
    ELSE LoadEntry(name, cache, files, find_function_entry(files, name))

----------------------------------------------------------------------------
(* executor.py: RequestHandler *)

\* json.dumps(data) succeeds: nothing the handler put into the response is a value
\* JSON cannot encode
DumpsOk(data) ==
    /\ "output" \in DOMAIN data => Encodable(data.output)
    /\ "logs" \in DOMAIN data => \A i \in DOMAIN data.logs : Encodable(data.logs[i].data)
    /\ ("error" \in DOMAIN data /\ "details" \in DOMAIN data.error)
           => Encodable(data.error.details)

\* send_json_response(status, data) on the socket w: the status line and headers go
\* out before json.dumps(data) runs
send_json_response(w, status, data) ==
    LET head == Append(w, [ev |-> "status", code |-> status])
    IN  IF DumpsOk(data)
        THEN [wire |-> Append(head, [ev |-> "body", data |-> data]),
              result |-> Return(PyNone)]
        ELSE [wire |-> head,
              result |-> Raise(Exc("TypeError", "Object is not JSON serializable"))]

ErrorBody(code, message) ==
    [success |-> FALSE, error |-> [code |-> code, message |-> message]]

\* nothing loaded, nothing executed
Idle == [op |-> "none", loads |-> 0, reads |-> 0, loaded |-> NoResult,
         invoked |-> 0, made |-> <<>>, outcome |-> NoResult, executed |-> NoResult]

Invoked == [Idle EXCEPT !.op = "invoke"]

\* nothing resolved yet, nothing dropped by a clear
NoHistory == [resolved |-> <<>>, dropped |-> <<>>]

\* line 136: the response of execute_function is sent, unless an exception left it
InvokeSend(l, x, sent) ==
    [wire |-> IF x.result.kind = "raise" THEN <<>> ELSE sent.wire,
     done |-> IF x.result.kind = "raise" THEN x.result ELSE sent.result,
     cache |-> l.cache,
     seen |-> [Invoked EXCEPT !.loads = 1, !.reads = l.reads, !.loaded = l.result,
                              !.invoked = x.invoked, !.made = x.made,
                              !.outcome = x.outcome, !.executed = x.result]]

InvokeExecuted(l, x) ==
    InvokeSend(l, x, IF x.result.kind = "raise" THEN x
                     ELSE send_json_response(<<>>, 200, x.result.value))

\* lines 133-134: execute_function runs on what load_function returned
InvokeLoaded(req, run, l) ==
    IF l.result.kind = "raise"
    THEN [wire |-> <<>>, done |-> l.result, cache |-> l.cache,
          seen |-> [Invoked EXCEPT !.loads = 1, !.reads = l.reads, !.loaded = l.result]]
    ELSE InvokeExecuted(l, execute_function(l.result.value, req, run))

\* lines 118-134: the function name is required
InvokeNamed(req, function_name, run, cache, files) ==
    IF ~Truthy(function_name)
    THEN [wire |-> send_json_response(<<>>, 400,
                       ErrorBody("INVALID_REQUEST", "Function name is required")).wire,
          done |-> Return(PyNone), cache |-> cache, seen |-> Invoked]
    ELSE InvokeLoaded(req, run, load_function(function_name, cache, files))

\* lines 116-118: the body is parsed, and request.get needs a dict
InvokeParsed(parsed, run, cache, files) ==
    IF parsed.kind = "raise"
    THEN [wire |-> <<>>, done |-> parsed, cache |-> cache, seen |-> Invoked]
    ELSE IF parsed.value.kind # "object"
    THEN [wire |-> <<>>, done |-> Raise(Exc("AttributeError", "object has no attribute 'get'")),
          cache |-> cache, seen |-> Invoked]
    ELSE InvokeNamed(parsed.value, Get(parsed.value, "function", PyNone), run, cache, files)

\* the try block of handle_invoke: done is Return(None) when it ran to its end or to
\* its return, and the exception that left it otherwise
InvokeTry(body, run, cache, files) == InvokeParsed(json_loads(body), run, cache, files)

\* the except clauses of handle_invoke; an exception that is no Exception leaves
\* the handler and ends the serve_forever loop
InvokeExcept(t) ==
    [cache |-> t.cache, seen |-> t.seen,
     alive |-> t.done.kind = "return" \/ IsException(t.done.exc),
     wire |-> IF t.done.kind = "return" THEN t.wire
              ELSE IF t.done.exc.cls = "FileNotFoundError"
              THEN send_json_response(t.wire, 404,
                       ErrorBody("FUNCTION_NOT_FOUND", t.done.exc.msg)).wire
              ELSE IF IsException(t.done.exc)
              THEN send_json_response(t.wire, 500,
                       ErrorBody("EXECUTOR_ERROR", t.done.exc.msg)).wire
              ELSE t.wire]

handle_invoke(body, run, cache, files) == InvokeExcept(InvokeTry(body, run, cache, files))

\* a clear that drops one name only
handle_clear_cache_OneName(cache) ==
    [cache |-> IF DOMAIN cache = {} THEN cache
               ELSE [n \in DOMAIN cache \ {CHOOSE m \in DOMAIN cache : TRUE} |-> cache[n]],
     wire |-> send_json_response(<<>>, 200, [status |-> "cache_cleared"]).wire]

\* handle_clear_cache: function_cache.clear(), then the answer
handle_clear_cache(cache) ==
    [cache |-> <<>>,
     wire |-> send_json_response(<<>>, 200, [status |-> "cache_cleared"]).wire]

----------------------------------------------------------------------------
(* The listener: requests handled one at a time (HTTPServer), and the deployment
   changing entry files under the functions root *)

Hello == FunctionDefinition("hello", NameMin2)
Echo == FunctionDefinition("echo", PyNone)

\* what an entry file holds: a module that exports a definition, one whose top-level
\* code raises, one with no default, one whose default is no FunctionDefinition
Sources ==
    { [top |-> "ok", default |-> Hello],
      [top |-> "ok", default |-> Echo],
      [top |-> "raises", exc |-> Exc("FileNotFoundError", "No such file or directory: 'cfg'")],
      [top |-> "raises", exc |-> Exc("SyntaxError", "invalid syntax")],
      [top |-> "ok", default |-> Absent],
      [top |-> "ok", default |-> PyDict("handler" :> PyStr("main"))] }

\* what the deployment writes while the listener runs: either definition, or a
\* module with no default
Deployed == {source \in Sources : source.top = "ok" /\ source.default.kind # "object"}

\* the entry files the deployment writes and removes
Paths == {IndexPath("f"), DirectPath("f"), DirectPath("g")}

WriteFile(files, path, source) ==
    IF path.entry = "index.py"
    THEN [files EXCEPT !.dirs = @ \cup {path.name}, !.index[path.name] = source]
    ELSE [files EXCEPT !.direct[path.name] = source]

RemoveFile(files, path) ==
    IF path.entry = "index.py"
    THEN [files EXCEPT !.index[path.name] = Absent]
    ELSE [files EXCEPT !.direct[path.name] = Absent]

\* bodies POSTed to /invoke
FunctionNames == {Absent, PyStr(""), PyInt(5), PyStr("f"), PyStr("g")}

RequestObject(request_id, function, input, context) ==
    DictOf([request_id |-> request_id, function |-> function,
            input |-> input, context |-> context])

\* every shape of body: not JSON, JSON but no object, and objects with each key
\* present or not
Bodies ==
    {Garbage, PyList(1)} \cup
    { RequestObject(r, f, i, c) :
        r \in RequestIds, f \in FunctionNames,
        i \in {Absent, PyDict("name" :> PyStr("Ann")), PyDict("name" :> PyStr("A"))},
        c \in Contexts }

\* handler runs under the listener: no logger calls, no time taken
ListenerRuns == {r \in RunsWith({<<>>}) : r.duration_ms = 0}

\* well-formed requests for each name, and a handler that returns
PlainBodies ==
    { RequestObject(PyStr("r1"), PyStr(n), PyDict("name" :> PyStr("Ann")), Absent) :
        n \in Names }
PlainRuns == {r \in ListenerRuns : r.outcome = Return(PyDict("message" :> PyStr("Hello")))}

\* the threads that may be inside load_function at once
Threads == {"t1", "t2"}

\* a thread that is not inside load_function
Outside ==
    [pc |-> "idle", name |-> PyNone, path |-> PyNone, module |-> NoResult,
     result |-> NoResult, via |-> "none", cleared |-> FALSE]

NoBody == [kind |-> "none"]

EmptyRoot ==
    [dirs |-> {}, index |-> [n \in Names |-> Absent], direct |-> [n \in Names |-> Absent]]

Init ==
    /\ fs = EmptyRoot
    /\ function_cache = <<>>
    /\ alive = TRUE
    /\ request = NoBody
    /\ wire = <<>>
    /\ trace = Idle
    /\ history = NoHistory
    /\ threads = [t \in Threads |-> Outside]
    /\ engine = [pc |-> "idle"]

\* the definitions load_function has returned, by name
Resolved(body, seen) ==
    IF seen.loaded.kind = "return"
    THEN [history EXCEPT !.resolved =
              (body.m["function"].s :> seen.loaded.value) @@ history.resolved]
    ELSE history

\* the listener's state after handle_invoke did h on body
Handled(body, h) ==
    /\ request' = body
    /\ wire' = h.wire
    /\ function_cache' = h.cache
    /\ trace' = h.seen
    /\ alive' = h.alive
    /\ history' = Resolved(body, h.seen)

\* POST /invoke with one of bodies, the handler (when it is reached) doing one of runs
HandleInvoke(bodies, runs) ==
    /\ alive
    /\ \E body \in bodies, run \in runs :
          Handled(body, handle_invoke(body, run, function_cache, fs))
    /\ UNCHANGED <<fs, engine, threads>>

\* POST /clear-cache
HandleClearCache ==
    /\ alive
    /\ function_cache' = handle_clear_cache(function_cache).cache
    /\ wire' = handle_clear_cache(function_cache).wire
    /\ request' = NoBody
    /\ trace' = [Idle EXCEPT !.op = "clear"]
    /\ history' = [resolved |-> <<>>, dropped |-> history.resolved]
    /\ UNCHANGED <<fs, alive, engine, threads>>

\* the deployment writes an entry file
DeployWrite ==
    /\ \E path \in Paths, source \in Deployed : fs' = WriteFile(fs, path, source)
    /\ UNCHANGED <<function_cache, alive, request, wire, trace, history, engine, threads>>

\* the deployment removes an entry file
DeployRemove ==
    /\ \E path \in Paths : fs' = RemoveFile(fs, path)
    /\ UNCHANGED <<function_cache, alive, request, wire, trace, history, engine, threads>>

\* The cache over time: plain requests, cache clears, and entry files changing
\* underneath
Next ==
    \/ HandleInvoke(PlainBodies, PlainRuns)
    \/ HandleClearCache
    \/ DeployWrite
    \/ DeployRemove

Spec == Init /\ [][Next]_vars

\* The listener's answers: every shape of body against a fixed deployment in which
\* f/index.py holds any of the sources (or is missing) and g has no entry file, and
\* one in which g.py holds a definition next to an f/index.py that does not
Deployments ==
    {EmptyRoot} \cup {WriteFile(EmptyRoot, IndexPath("f"), source) : source \in Sources}
    \cup {WriteFile(WriteFile(EmptyRoot, DirectPath("g"), [top |-> "ok", default |-> Echo]),
                    IndexPath("f"),
                    [top |-> "ok", default |-> PyDict("handler" :> PyStr("main"))])}

InitInvoke ==
    /\ fs \in Deployments
    /\ function_cache = <<>>
    /\ alive = TRUE
    /\ request = NoBody
    /\ wire = <<>>
    /\ trace = Idle
    /\ history = NoHistory
    /\ threads = [t \in Threads |-> Outside]
    /\ engine = [pc |-> "idle"]

NextInvoke ==
    \/ HandleInvoke(Bodies, ListenerRuns)
    \/ HandleClearCache

SpecInvoke == InitInvoke /\ [][NextInvoke]_vars

\* One call of execute_function on any definition, request and handler run
InitExec ==
    /\ fs = EmptyRoot
    /\ function_cache = <<>>
    /\ alive = TRUE
    /\ request = NoBody
    /\ wire = <<>>
    /\ trace = Idle
    /\ history = NoHistory
    /\ threads = [t \in Threads |-> Outside]
    /\ \E s \in Schemas, r \in RequestIds, i \in Inputs, c \in Contexts :
          engine = [pc |-> "start",
                    function_def |-> FunctionDefinition("handler", s),
                    request |-> RequestObject(r, PyStr("fn"), i, c)]

ExecuteFunction ==
    /\ engine.pc = "start"
    /\ \E run \in Runs :
          engine' = [pc |-> "done", function_def |-> engine.function_def,
                     request |-> engine.request]
                    @@ execute_function(engine.function_def, engine.request, run)
    /\ UNCHANGED <<fs, function_cache, alive, request, wire, trace, history, threads>>

NextExec == ExecuteFunction

SpecExec == InitExec /\ [][NextExec]_vars

\* One call of validate_input on any schema and input.
\* The rules of one schema field: each rule declared or not, every declared type,
\* bounds 0 and 2
Rules ==
    { DictOf([required |-> q, type |-> t, min_length |-> lo, max_length |-> hi]) :
        q \in {Absent, PyBool(TRUE), PyBool(FALSE)},
        t \in {Absent} \cup {PyStr(x) : x \in TypeMapKeys},
        lo \in {Absent, PyInt(0), PyInt(2)},
        hi \in {Absent, PyInt(0), PyInt(2)} }

\* the rules used where a schema declares two fields
PairRules ==
    { PyDict("required" :> PyBool(TRUE)),
      PyDict(("type" :> PyStr("string")) @@ ("min_length" :> PyInt(2))),
      PyDict(("type" :> PyStr("number"))),
      PyDict(("max_length" :> PyInt(0))) }

OneFieldSchemas == {PySchema(<< <<"name", r>> >>) : r \in Rules}

\* two fields, declared in either order
TwoFieldSchemas ==
    {PySchema(<< <<"name", r1>>, <<"age", r2>> >>) : r1 \in PairRules, r2 \in PairRules}
    \cup {PySchema(<< <<"age", r1>>, <<"name", r2>> >>) : r1 \in PairRules, r2 \in PairRules}

\* a value of every JSON kind, strings of length 0, 1 and 3
Values ==
    {PyNone, PyStr(""), PyStr("A"), PyStr("Ann"), PyInt(5), PyFloat, PyBool(TRUE),
     PyList(1), EmptyDict}

\* inputs to a one-field schema: the field absent, null or of any kind, and a field
\* the schema does not declare
OneFieldInputs ==
    { DictOf([name |-> n, extra |-> e]) :
        n \in {Absent} \cup Values, e \in {Absent, PyInt(5)} }

TwoFieldInputs ==
    { DictOf([name |-> n, age |-> a]) :
        n \in {Absent, PyStr("A"), PyStr("Ann"), PyBool(TRUE)},
        a \in {Absent, PyStr("A"), PyInt(5), PyBool(TRUE)} }

InitValidate ==
    /\ fs = EmptyRoot
    /\ function_cache = <<>>
    /\ alive = TRUE
    /\ request = NoBody
    /\ wire = <<>>
    /\ trace = Idle
    /\ history = NoHistory
    /\ threads = [t \in Threads |-> Outside]
    /\ \/ \E schema \in OneFieldSchemas, input_data \in OneFieldInputs :
             engine = [pc |-> "start", schema |-> schema, input_data |-> input_data]
       \/ \E schema \in TwoFieldSchemas, input_data \in TwoFieldInputs :
             engine = [pc |-> "start", schema |-> schema, input_data |-> input_data]

ValidateInput ==
    /\ engine.pc = "start"
    /\ engine' = [pc |-> "done", schema |-> engine.schema,
                  input_data |-> engine.input_data,
                  result |-> validate_input(engine.input_data, engine.schema)]
    /\ UNCHANGED <<fs, function_cache, alive, request, wire, trace, history, threads>>

NextValidate == ValidateInput

SpecValidate == InitValidate /\ [][NextValidate]_vars

\* load_function statement by statement, by threads that share function_cache.
\* A thread enters load_function(name)
LoadCall(t) ==
    /\ threads[t].pc = "idle"
    /\ \E n \in Names :
          threads' = [threads EXCEPT ![t] = [Outside EXCEPT !.pc = "test", !.name = PyStr(n)]]
    /\ UNCHANGED <<fs, function_cache, alive, request, wire, trace, history, engine>>

\* line 49: if name in function_cache
LoadTest(t) ==
    /\ threads[t].pc = "test"
    /\ threads' = [threads EXCEPT ![t] =
          IF threads[t].name.s \in DOMAIN function_cache
          THEN [@ EXCEPT !.pc = "read", !.via = "hit"]
          ELSE [@ EXCEPT !.pc = "find", !.via = "miss"]]
    /\ UNCHANGED <<fs, function_cache, alive, request, wire, trace, history, engine>>

\* line 50: return function_cache[name]; a key that is gone raises KeyError
LoadRead(t) ==
    /\ threads[t].pc = "read"
    /\ threads' = [threads EXCEPT ![t] =
          [@ EXCEPT !.pc = "done",
                    !.result = IF threads[t].name.s \in DOMAIN function_cache
                               THEN Return(function_cache[threads[t].name.s])
                               ELSE Raise(Exc("KeyError", threads[t].name.s))]]
    /\ UNCHANGED <<fs, function_cache, alive, request, wire, trace, history, engine>>

\* the thread after find_function_entry returned function_path (lines 52-54)
Found(th, function_path) ==
    IF function_path.value = PyNone
    THEN [th EXCEPT !.pc = "done",
                    !.result = LoadEntry(th.name, <<>>, EmptyRoot, function_path).result]
    ELSE [th EXCEPT !.pc = "exec", !.path = function_path.value]

\* lines 52-54: the entry file is looked up
LoadFind(t) ==
    /\ threads[t].pc = "find"
    /\ threads' = [threads EXCEPT ![t] = Found(@, find_function_entry(fs, threads[t].name))]
    /\ UNCHANGED <<fs, function_cache, alive, request, wire, trace, history, engine>>

\* lines 56-62: the module's top-level code runs
LoadExec(t) ==
    /\ threads[t].pc = "exec"
    /\ threads' = [threads EXCEPT ![t] =
          [@ EXCEPT !.pc = "store", !.module = exec_module(ReadFile(fs, threads[t].path))]]
    /\ UNCHANGED <<fs, function_cache, alive, request, wire, trace, history, engine>>

\* lines 64-76: the default export is checked, cached and returned
LoadStore(t) ==
    /\ threads[t].pc = "store"
    /\ function_cache' = LoadModule(threads[t].name, function_cache, threads[t].module).cache
    /\ threads' = [threads EXCEPT ![t] =
          [@ EXCEPT !.pc = "done",
                    !.result = LoadModule(threads[t].name, function_cache,
                                          threads[t].module).result]]
    /\ UNCHANGED <<fs, alive, request, wire, trace, history, engine>>

\* the caller has what load_function returned or raised
LoadReturn(t) ==
    /\ threads[t].pc = "done"
    /\ threads' = [threads EXCEPT ![t] = Outside]
    /\ UNCHANGED <<fs, function_cache, alive, request, wire, trace, history, engine>>

\* handle_clear_cache on another thread; cleared marks the calls it ran into
ClearCache ==
    /\ function_cache' = handle_clear_cache(function_cache).cache
    /\ wire' = handle_clear_cache(function_cache).wire
    /\ threads' = [t \in Threads |->
          IF threads[t].pc = "idle" THEN threads[t] ELSE [threads[t] EXCEPT !.cleared = TRUE]]
    /\ UNCHANGED <<fs, alive, request, trace, history, engine>>

\* the deployment puts another definition into f/index.py
Redeploy ==
    /\ \E source \in {d \in Deployed : d.default # Absent} :
          fs' = WriteFile(fs, IndexPath("f"), source)
    /\ UNCHANGED <<function_cache, alive, request, wire, trace, history, engine, threads>>

\* Layouts of f under the functions root: the flat file f.py alone, next to
\* f/index.py, next to a directory f without index.py, and that directory alone
FlatOnly == WriteFile(EmptyRoot, DirectPath("f"), [top |-> "ok", default |-> Echo])
Layouts ==
    { FlatOnly,
      WriteFile(FlatOnly, IndexPath("f"), [top |-> "ok", default |-> Hello]),
      RemoveFile(WriteFile(FlatOnly, IndexPath("f"), [top |-> "ok", default |-> Hello]),
                 IndexPath("f")),
      RemoveFile(WriteFile(EmptyRoot, IndexPath("f"), [top |-> "ok", default |-> Hello]),
                 IndexPath("f")) }

InitLoad ==
    /\ fs \in Deployments \cup Layouts
    /\ function_cache = <<>>
    /\ alive = TRUE
    /\ request = NoBody
    /\ wire = <<>>
    /\ trace = Idle
    /\ history = NoHistory
    /\ threads = [t \in Threads |-> Outside]
    /\ engine = [pc |-> "idle"]

NextLoad ==
    \/ \E t \in Threads : LoadCall(t)
    \/ \E t \in Threads : LoadTest(t)
    \/ \E t \in Threads : LoadRead(t)
    \/ \E t \in Threads : LoadFind(t)
    \/ \E t \in Threads : LoadExec(t)
    \/ \E t \in Threads : LoadStore(t)
    \/ \E t \in Threads : LoadReturn(t)
    \/ ClearCache
    \/ Redeploy

SpecLoad == InitLoad /\ [][NextLoad]_vars

\* One call of execute_function on any request context.
\* The auth object of a context: any subset of its fields, none included
AuthObjects ==
    { DictOf([id |-> i, email |-> e, verified |-> v, role |-> r]) :
        i \in {Absent, PyStr("u1")}, e \in {Absent, PyStr("a@b.c")},
        v \in {Absent, PyBool(TRUE)}, r \in {Absent, PyStr("admin")} }

\* context objects: auth missing, null or an object; the other keys all there or not
ContextObjects ==
    { DictOf([auth |-> a, env |-> x[1], alyx_url |-> x[2], internal_token |-> x[3]]) :
        a \in {Absent, PyNone} \cup AuthObjects,
        x \in { <<Absent, Absent, Absent>>,
                <<PyDict("REGION" :> PyStr("eu")), PyStr("http://alyx"), PyStr("secret")>> } }

InitContext ==
    /\ fs = EmptyRoot
    /\ function_cache = <<>>
    /\ alive = TRUE
    /\ request = NoBody
    /\ wire = <<>>
    /\ trace = Idle
    /\ history = NoHistory
    /\ threads = [t \in Threads |-> Outside]
    /\ \E c \in ContextObjects :
          engine = [pc |-> "start",
                    function_def |-> FunctionDefinition("handler", PyNone),
                    request |-> RequestObject(PyStr("r1"), PyStr("fn"), EmptyDict, c)]

SpecContext == InitContext /\ [][NextExec]_vars

\* One call of CollectionClient.find.
\* a dict whose items are read in insertion order
FilterDict(items) == PySchema(items)

Filters ==
    { Absent, FilterDict(<<>>),
      FilterDict(<< <<"status", PyStr("open")>> >>),
      FilterDict(<< <<"status", PyStr("open")>>, <<"age", PyInt(5)>> >>),
      FilterDict(<< <<"age", PyInt(5)>>, <<"status", PyStr("open")>> >>) }

\* what the internal API answers to the query: documents, a body with no data, or
\* a failure
FindReplies ==
    { [kind |-> "ok", body |-> PyDict("data" :> PyList(2))],
      [kind |-> "ok", body |-> EmptyDict] }
    \cup {reply \in FailedReplies : reply.kind = "URLError"}

\* an argument left out takes the parameter's default, None
Arg(x) == IF x = Absent THEN PyNone ELSE x

InitFind ==
    /\ fs = EmptyRoot
    /\ function_cache = <<>>
    /\ alive = TRUE
    /\ request = NoBody
    /\ wire = <<>>
    /\ trace = Idle
    /\ history = NoHistory
    /\ threads = [t \in Threads |-> Outside]
    /\ \E filter \in Filters, sort \in {Absent, PyStr(""), PyStr("name")},
          limit \in {Absent, PyInt(0), PyInt(10)},
          offset \in {Absent, PyInt(0), PyInt(5)} :
          engine = [pc |-> "start", collection |-> "users", filter |-> filter,
                    sort |-> sort, limit |-> limit, offset |-> offset]

Find ==
    /\ engine.pc = "start"
    /\ \E reply \in FindReplies :
          engine' = [engine EXCEPT !.pc = "done"]
                    @@ [reply |-> reply]
                    @@ CollectionClient_find(engine.collection, Arg(engine.filter),
                           Arg(engine.sort), Arg(engine.limit), Arg(engine.offset), reply)
    /\ UNCHANGED <<fs, function_cache, alive, request, wire, trace, history, threads>>

NextFind == Find

SpecFind == InitFind /\ [][NextFind]_vars

----------------------------------------------------------------------------
(* Properties of execute_function (SpecExec) *)

\* execute_function returned a response
Responded == engine.pc = "done" /\ engine.result.kind = "return"
Response == engine.result.value

\* the handler ran and raised e
HandlerRaised == engine.pc = "done" /\ engine.invoked = 1 /\ engine.outcome.kind = "raise"

\* C4: in every response execute_function assembles exactly one of output and
\* error is present: output and no error when success is true, error and no
\* output when success is false.
C4_ExactlyOneOfOutputAndError ==
    Responded =>
        /\ Response.success => ("output" \in DOMAIN Response /\ "error" \notin DOMAIN Response)
        /\ ~Response.success => ("error" \in DOMAIN Response /\ "output" \notin DOMAIN Response)

\* a handler fault turned into a failure response
C4_Witness ==
    /\ Responded /\ ~Response.success
    /\ HandlerRaised /\ engine.outcome.exc.cls = "Exception"

\* the entry the logger is asked for by one call: its method is the level, and data
\* left out (or empty) is the empty mapping
Asked(call) ==
    [level |-> call.method, message |-> call.message,
     data |-> IF call.data = PyNone THEN EmptyDict ELSE call.data]

\* C5: the logs of every response are exactly the logger calls the handler made in
\* that invocation, in call order, none dropped, duplicated or reordered, whether
\* the handler returned, raised a FunctionError or raised another fault.
C5_LogsAreTheCallsInOrder ==
    Responded =>
        /\ Len(Response.logs) = Len(engine.made)
        /\ \A i \in 1..Len(engine.made) :
              /\ Response.logs[i].level = Asked(engine.made[i]).level
              /\ Response.logs[i].message = Asked(engine.made[i]).message
              /\ Response.logs[i].data = Asked(engine.made[i]).data

\* two different logger calls, then a FunctionError
C5_Witness ==
    /\ Responded /\ ~Response.success
    /\ HandlerRaised /\ engine.outcome.exc.cls = "FunctionError"
    /\ Len(engine.made) = 2 /\ engine.made[1] # engine.made[2]

\* JSON kinds a declared type admits: number is integer or floating, not boolean
KindsOf(type) ==
    CASE type = "string" -> {"string"}
      [] type = "number" -> {"int", "float"}
      [] type = "boolean" -> {"boolean"}
      [] type = "array" -> {"array"}
      [] type = "object" -> {"object"}
      [] OTHER -> {"string", "int", "float", "boolean", "array", "object"}

\* the input violates the rules declared for one field: required and missing, a
\* value of another type than declared, a string shorter than min_length or longer
\* than max_length
ViolatesField(input, field_name, rules) ==
    \/ /\ "required" \in DOMAIN rules.m /\ rules.m["required"] = PyBool(TRUE)
       /\ Get(input, field_name, PyNone) = PyNone
    \/ /\ Get(input, field_name, PyNone) # PyNone
       /\ "type" \in DOMAIN rules.m
       /\ input.m[field_name].kind \notin KindsOf(rules.m["type"].s)
    \/ /\ Get(input, field_name, PyNone).kind = "string"
       /\ "min_length" \in DOMAIN rules.m
       /\ Len(input.m[field_name].s) < rules.m["min_length"].n
    \/ /\ Get(input, field_name, PyNone).kind = "string"
       /\ "max_length" \in DOMAIN rules.m
       /\ Len(input.m[field_name].s) > rules.m["max_length"].n

\* the function has an input_schema and the request's input object violates it
InputViolatesSchema ==
    /\ engine.pc = "done"
    /\ engine.function_def.input_schema.kind = "schema"
    /\ "input" \in DOMAIN engine.request.m
    /\ engine.request.m["input"].kind = "object"
    /\ \E i \in 1..Len(engine.function_def.input_schema.items) :
          ViolatesField(engine.request.m["input"],
                        engine.function_def.input_schema.items[i][1],
                        engine.function_def.input_schema.items[i][2])

\* C8: when the function has an input_schema and the input violates it, the
\* handler is never invoked, and the response has success=false,
\* error.code = VALIDATION_ERROR and no logs.
C8_ViolationShortCircuits ==
    InputViolatesSchema =>
        /\ engine.invoked = 0
        /\ Responded =>
              /\ ~Response.success
              /\ Response.error.code = "VALIDATION_ERROR"
              /\ Response.logs = <<>>

\* C9: when the handler raises a FunctionError, the response has success=false and
\* its error carries exactly the code, the message and the details raised.
C9_FunctionErrorVerbatim ==
    (HandlerRaised /\ engine.outcome.exc.cls = "FunctionError") =>
        /\ Responded
        /\ ~Response.success
        /\ Response.error = [code |-> engine.outcome.exc.code,
                             message |-> engine.outcome.exc.message,
                             details |-> engine.outcome.exc.details]

\* a FunctionError raised without details
C9_Witness ==
    /\ HandlerRaised /\ engine.outcome.exc.cls = "FunctionError"
    /\ engine.outcome.exc.details = PyNone
    /\ Responded /\ Response.error.details = PyNone

\* the response of a wrapped fault
Wrapped(e) == [code |-> "FUNCTION_ERROR", message |-> e.msg, details |-> EmptyDict]

----------------------------------------------------------------------------
(* Properties of the cache over time (Spec) *)

\* the function name of the request handled last
Requested == request.m["function"].s

\* the source an invocation of name would load from files now, Absent with no entry
Current(files, name) ==
    IF name \in files.dirs /\ files.index[name] # Absent THEN files.index[name]
    ELSE files.direct[name]

\* C1: once load_function(name) has succeeded, every later load_function(name) with
\* no clear in between returns that same definition and does not read storage,
\* whatever has become of the entry file.
C1_CachedUntilCleared ==
    [][ \A body \in PlainBodies :
          (HandleInvoke({body}, PlainRuns)
             /\ body.m["function"].s \in DOMAIN history.resolved)
          => /\ trace'.loaded = Return(history.resolved[body.m["function"].s])
             /\ trace'.reads = 0
             /\ history' = history ]_vars

\* a cached definition is returned although its entry file is gone, and although
\* the file now holds another definition
C1_Witness ==
    /\ trace.op = "invoke" /\ trace.reads = 0 /\ trace.loaded.kind = "return"
    /\ Current(fs, Requested) = Absent
    /\ \E other \in Names \ {Requested} :
          /\ other \in DOMAIN function_cache
          /\ Current(fs, other) \in Deployed
          /\ Current(fs, other).default \notin {Absent, function_cache[other]}

\* C2: clear-cache empties the whole cache and answers {status: cache_cleared};
\* after it the next load_function of a name that was cached reads storage again:
\* it returns what the entry file holds now, or fails with not-found when the
\* file is gone.
C2_ClearForcesFreshLoad ==
    [][ /\ HandleClearCache =>
              /\ function_cache' = <<>>
              /\ wire' = << [ev |-> "status", code |-> 200],
                            [ev |-> "body", data |-> [status |-> "cache_cleared"]] >>
        /\ \A body \in PlainBodies :
              (HandleInvoke({body}, PlainRuns)
                 /\ body.m["function"].s \in DOMAIN history.dropped
                 /\ body.m["function"].s \notin DOMAIN history.resolved)
              => /\ trace'.reads = 1
                 /\ Current(fs, body.m["function"].s) = Absent
                       => /\ trace'.loaded.kind = "raise"
                          /\ trace'.loaded.exc.cls = "FileNotFoundError"
                 /\ (Current(fs, body.m["function"].s) # Absent
                       /\ Current(fs, body.m["function"].s).default # Absent)
                       => trace'.loaded = Return(Current(fs, body.m["function"].s).default)
      ]_vars

\* a clear dropped both names; the next load of one of them returned the definition
\* its file holds now, which is not the one dropped
C2_Witness ==
    /\ DOMAIN history.dropped = Names
    /\ trace.op = "invoke" /\ trace.reads = 1 /\ trace.loaded.kind = "return"
    /\ history.resolved[Requested] # history.dropped[Requested]
    /\ DOMAIN function_cache = {Requested}

----------------------------------------------------------------------------
(* Properties of the listener's answers (SpecInvoke) *)

\* the listener handled a POST /invoke whose body parsed to an object
InvokedObject == trace.op = "invoke" /\ request.kind = "object"

\* the bodies the listener wrote for the request handled last
BodiesSent == {wire[i].data : i \in {j \in DOMAIN wire : wire[j].ev = "body"}}

\* the status the listener answered with: the first status line on the wire
Answered(code) == wire # <<>> /\ wire[1].ev = "status" /\ wire[1].code = code

\* C3: every response to an invoke request carries the caller's request_id
\* unchanged, on success and on every failure path; when the request could not be
\* parsed, the response carries request_id = "unknown".
C3_RequestIdEchoed ==
    trace.op = "invoke" =>
        \A sent \in BodiesSent :
            /\ "request_id" \in DOMAIN sent
            /\ (request.kind = "object" /\ "request_id" \in DOMAIN request.m)
                  => sent.request_id = request.m["request_id"]
            /\ request.kind # "object" => sent.request_id = PyStr("unknown")

\* the requested name has an entry file under the functions root
EntryExists ==
    /\ request.m["function"].kind = "string"
    /\ request.m["function"].s \in Names
    /\ Current(fs, request.m["function"].s) # Absent

\* C6: POST /invoke answers 400 when the request has no function name, 404 when
\* the named function cannot be resolved (no entry file), 500 on an internal
\* runtime fault (the entry file exists and loading it fails), and 200 when the
\* function resolves and execute_function returns a response, whatever its outcome.
C6_StatusMapping ==
    InvokedObject =>
        /\ ~Truthy(Get(request, "function", PyNone)) => Answered(400)
        /\ (trace.loaded.kind = "raise" /\ Get(request, "function", PyNone).kind = "string"
              /\ ~EntryExists) => Answered(404)
        /\ (trace.loaded.kind = "raise" /\ EntryExists) => Answered(500)
        /\ (trace.loaded.kind = "return" /\ trace.executed.kind = "return") => Answered(200)

\* the request lacks one of the keys request_id, function, input
LacksKey == InvokedObject /\ {"request_id", "function", "input"} \ DOMAIN request.m # {}

\* C7: for every invoke request that lacks request_id, function or input, a
\* request-structure error is reported, and load_function is never called.
C7_StructureCheckedBeforeLoad ==
    LacksKey =>
        /\ trace.loads = 0
        /\ \E sent \in BodiesSent : ~sent.success /\ sent.error.code = "INVALID_REQUEST"

----------------------------------------------------------------------------
(* Properties of validate_input (SpecValidate) *)

\* the first rule of a field the input violates, in the order required, type,
\* min_length, max_length; "none" when it violates none
ViolatedRule(input, field_name, rules) ==
    LET value == Get(input, field_name, PyNone)
    IN  IF "required" \in DOMAIN rules.m /\ rules.m["required"] = PyBool(TRUE)
           /\ value = PyNone
        THEN "required"
        ELSE IF value # PyNone /\ "type" \in DOMAIN rules.m
                /\ value.kind \notin KindsOf(rules.m["type"].s)
        THEN "type"
        ELSE IF value.kind = "string" /\ "min_length" \in DOMAIN rules.m
                /\ Len(value.s) < rules.m["min_length"].n
        THEN "min_length"
        ELSE IF value.kind = "string" /\ "max_length" \in DOMAIN rules.m
                /\ Len(value.s) > rules.m["max_length"].n
        THEN "max_length"
        ELSE "none"

\* the schema items the input violates
Violating(input, schema) ==
    {i \in 1..Len(schema.items) :
        ViolatedRule(input, schema.items[i][1], schema.items[i][2]) # "none"}

\* the smallest number of a non-empty set of numbers
Least(S) == CHOOSE i \in S : \A j \in S : i <= j

\* the details a validation error carries for a rule of a field
DetailsFor(field_name, rules, rule) ==
    CASE rule = "required" -> PyDict("field" :> PyStr(field_name))
      [] rule = "type" ->
            PyDict(("field" :> PyStr(field_name)) @@ ("expected" :> rules.m["type"]))
      [] rule = "min_length" ->
            PyDict(("field" :> PyStr(field_name)) @@ ("min_length" :> rules.m["min_length"]))
      [] rule = "max_length" ->
            PyDict(("field" :> PyStr(field_name)) @@ ("max_length" :> rules.m["max_length"]))

Validated == engine.pc = "done" /\ "schema" \in DOMAIN engine

\* validate_input raised a validation error
ValidationRaised ==
    /\ Validated
    /\ engine.result.kind = "raise"
    /\ engine.result.exc.cls = "FunctionError"
    /\ engine.result.exc.code = "VALIDATION_ERROR"

\* validate_input raised a validation error with these details
RaisedWith(details) == ValidationRaised /\ engine.result.exc.details = details

\* C11: validate_input raises exactly one validation error, naming the first schema
\* field in declaration order that violates any of its rules (within the field:
\* required, then type, then min_length, then max_length), and returns without
\* effect when no rule of any schema field is violated; input fields the schema
\* does not declare never cause an error.
C11_FirstViolationInOrder ==
    Validated =>
        IF Violating(engine.input_data, engine.schema) = {}
        THEN engine.result = Return(PyNone)
        ELSE LET item == engine.schema.items[Least(Violating(engine.input_data, engine.schema))]
             IN  RaisedWith(DetailsFor(item[1], item[2],
                                       ViolatedRule(engine.input_data, item[1], item[2])))

\* the first schema field, its rules and the input's value for it
FirstField == engine.schema.items[1][1]
FirstRules == engine.schema.items[1][2]
FirstValue == Get(engine.input_data, FirstField, PyNone)

\* C12: a present (non-null) value of a field with a declared type is rejected,
\* with a validation error citing the field and the expected type, exactly when
\* its kind differs from the declared type; number admits integer and floating
\* values only.
C12_TypeRule ==
    (Validated /\ "type" \in DOMAIN FirstRules.m /\ FirstValue # PyNone) =>
        (RaisedWith(DetailsFor(FirstField, FirstRules, "type"))
            <=> FirstValue.kind \notin KindsOf(FirstRules.m["type"].s))

\* validate_input raised an error citing a length bound of the first field
LengthRaised ==
    /\ ValidationRaised
    /\ engine.result.exc.details.m["field"] = PyStr(FirstField)
    /\ {"min_length", "max_length"} \cap DOMAIN engine.result.exc.details.m # {}

\* C13: a string value is rejected, with a validation error citing the field and
\* the bound, exactly when it is shorter than a declared min_length or longer than
\* a declared max_length, for every declared bound (0 included); a value that is
\* no string is never rejected by a length rule.
C13_LengthRule ==
    Validated =>
        /\ FirstValue.kind # "string" => ~LengthRaised
        /\ (FirstValue.kind = "string"
              /\ ("type" \in DOMAIN FirstRules.m => FirstRules.m["type"] = PyStr("string")))
           => IF ViolatedRule(engine.input_data, FirstField, FirstRules)
                    \in {"min_length", "max_length"}
              THEN RaisedWith(DetailsFor(FirstField, FirstRules,
                        ViolatedRule(engine.input_data, FirstField, FirstRules)))
              ELSE ~LengthRaised

----------------------------------------------------------------------------
(* Properties of load_function under threads (SpecLoad) *)

\* the thread's call found the name uncached, executed a module that exports a
\* FunctionDefinition, has ended, and no clear ran into it
LoadedFresh(t) ==
    /\ threads[t].pc = "done"
    /\ threads[t].via = "miss"
    /\ ~threads[t].cleared
    /\ threads[t].module.kind = "return"
    /\ threads[t].module.value.default # Absent
    /\ threads[t].module.value.default.kind = "FunctionDefinition"

\* C14: when two invocations concurrently resolve the same not-yet-cached, loadable
\* name with no clear in between, each of them obtains a FunctionDefinition, and
\* afterwards the cache holds one entry for the name: the definition one of them
\* loaded.
C14_RacingLoadsLeaveOneEntry ==
    \A t, u \in Threads :
        (t # u /\ LoadedFresh(t) /\ LoadedFresh(u) /\ threads[t].name = threads[u].name)
        => /\ threads[t].result.kind = "return"
           /\ threads[t].result.value.kind = "FunctionDefinition"
           /\ threads[t].name.s \in DOMAIN function_cache
           /\ function_cache[threads[t].name.s]
                 \in {threads[t].result.value, threads[u].result.value}

\* two racing loads of f obtained different definitions (the file was rewritten
\* between them); the cache holds one of the two
C14_Witness ==
    /\ LoadedFresh("t1") /\ LoadedFresh("t2")
    /\ threads["t1"].name = PyStr("f") /\ threads["t2"].name = PyStr("f")
    /\ threads["t1"].result.kind = "return" /\ threads["t2"].result.kind = "return"
    /\ threads["t1"].result.value # threads["t2"].result.value
    /\ function_cache["f"] = threads["t2"].result.value

C16_ResolutionOrder ==
    [][ \A t \in Threads :
          LoadFind(t) =>
             IF fs.index[threads[t].name.s] # Absent
             THEN threads'[t].pc = "exec"
                  /\ threads'[t].path = IndexPath(threads[t].name.s)
             ELSE IF fs.direct[threads[t].name.s] # Absent
             THEN threads'[t].pc = "exec"
                  /\ threads'[t].path = DirectPath(threads[t].name.s)
             ELSE threads'[t].pc = "done"
                  /\ threads'[t].result.kind = "raise"
                  /\ threads'[t].result.exc.cls = "FileNotFoundError" ]_vars

\* f/index.py was chosen although f.py exists too
C16_Witness ==
    /\ threads["t1"].pc = "exec"
    /\ threads["t1"].path = IndexPath("f")
    /\ fs.index["f"] # Absent /\ fs.direct["f"] # Absent

----------------------------------------------------------------------------
(* Properties of the context execute_function builds (SpecContext) *)

\* the auth of the request's context, Absent when the context has none
ContextAuth == Get(engine.request.m["context"], "auth", Absent)

\* the AuthContext an auth object maps to: missing id and email are the empty
\* string, missing verified is false, missing role and metadata are null
MappedAuth(a) ==
    [kind |-> "AuthContext",
     id |-> IF "id" \in DOMAIN a.m THEN a.m["id"] ELSE PyStr(""),
     email |-> IF "email" \in DOMAIN a.m THEN a.m["email"] ELSE PyStr(""),
     role |-> IF "role" \in DOMAIN a.m THEN a.m["role"] ELSE PyNone,
     verified |-> IF "verified" \in DOMAIN a.m THEN a.m["verified"] ELSE PyBool(FALSE),
     metadata |-> IF "metadata" \in DOMAIN a.m THEN a.m["metadata"] ELSE PyNone]

\* C17: whenever the request context contains an auth object, with any subset of
\* its fields (none included), the handler receives the AuthContext it maps to
\* (id and email default to the empty string, verified to false); the handler
\* receives no auth only when the context has no auth; construction never fails
\* on missing optional fields.
C17_AuthMappedWithDefaults ==
    (engine.pc = "done" /\ "context" \in DOMAIN engine.request.m
        /\ engine.request.m["context"].kind = "object") =>
        /\ engine.invoked = 1
        /\ ContextAuth.kind = "object" => engine.context.auth = MappedAuth(ContextAuth)
        /\ engine.context.auth = PyNone => ContextAuth \in {Absent, PyNone}

----------------------------------------------------------------------------
(* Properties of CollectionClient.find (SpecFind) *)

\* the parameter for an argument the caller supplied, none for one left out
Supplied(key, x) == IF x = Absent THEN <<>> ELSE <<key \o "=" \o Str(x)>>

\* C18: find issues one GET whose query string is collection=<name>, then one
\* filter=<field>:eq:<value> per key of the filter in the filter's key order, then
\* sort, limit and offset for exactly those the caller supplied, whatever their
\* value; it returns the response's data array, or an empty sequence when the
\* response has no data.
C18_QueryString ==
    (engine.pc = "done" /\ "collection" \in DOMAIN engine) =>
        /\ engine.method = "GET"
        /\ engine.path = "/internal/v1/db/query?"
              \o Join(<<"collection=" \o engine.collection>>
                      \o (IF engine.filter = Absent THEN <<>> ELSE FilterParams(engine.filter))
                      \o Supplied("sort", engine.sort)
                      \o Supplied("limit", engine.limit)
                      \o Supplied("offset", engine.offset))
        /\ engine.reply.kind = "ok" =>
              engine.result = Return(IF "data" \in DOMAIN engine.reply.body.m
                                     THEN engine.reply.body.m["data"] ELSE PyList(0))

----------------------------------------------------------------------------
(* Properties of the invocation as a whole *)

\* execute_function has ended, by a return or by an exception leaving it
Executed == engine.pc = "done" /\ "function_def" \in DOMAIN engine

\* the invocation failed before the handler (context, validation) or in it
Failed == Executed /\ (engine.invoked = 0 \/ engine.outcome.kind = "raise")

\* C19: an invocation moves forward through Start, ContextBuilt, Validated,
\* Invoked, ResponseAssembled; a failure in context construction, validation or
\* the handler leads to ResponseAssembled(failure): execute_function still returns
\* a failure response carrying the logs accumulated up to the failure; the
\* handler is invoked at most once.
C19_EveryFailureAssembled ==
    Executed =>
        /\ engine.invoked \in {0, 1}
        /\ Responded
        /\ Response.success <=> ~Failed
        /\ Len(Response.logs) = Len(engine.made)
        /\ \A i \in 1..Len(engine.made) :
              Response.logs[i].message = Asked(engine.made[i]).message

\* C20: a load_function call that fails leaves the function cache as it was
\* (nothing cached for the name, other names' entries untouched) and is not
\* remembered: the next load of the same name reads storage again; every value in
\* the cache is a FunctionDefinition.
C20_FailedLoadLeavesCache ==
    [][ /\ (trace'.op = "invoke" /\ trace'.loads = 1 /\ trace'.loaded.kind = "raise")
              => function_cache' = function_cache
        /\ (trace.op = "invoke" /\ trace.loads = 1 /\ trace.loaded.kind = "raise"
              /\ request.m["function"].kind = "string"
              /\ trace'.op = "invoke" /\ trace'.loads = 1
              /\ request'.m["function"] = request.m["function"])
              => trace'.reads = 1
        /\ \A n \in DOMAIN function_cache' :
              function_cache'[n].kind = "FunctionDefinition" ]_vars

\* loading f failed on its default export while g stays cached
C20_Witness ==
    /\ trace.op = "invoke" /\ trace.loads = 1
    /\ trace.loaded.kind = "raise" /\ trace.loaded.exc.cls = "ValueError"
    /\ request.m["function"] = PyStr("f")
    /\ DOMAIN function_cache = {"g"}

----------------------------------------------------------------------------
(* Properties of what the listener writes to the socket (SpecInvoke) *)

\* the status lines and the bodies written for the request handled last
StatusLines == {i \in DOMAIN wire : wire[i].ev = "status"}
BodyWrites == {i \in DOMAIN wire : wire[i].ev = "body"}

\* C21: for every POST /invoke the listener sends exactly one HTTP response, one
\* status line and one body, on every path: missing function name, function not
\* found, load failure, handler success, handler failure, and failure while
\* serializing the response.
C21_ExactlyOneResponse ==
    trace.op = "invoke" =>
        /\ Cardinality(StatusLines) = 1
        /\ Cardinality(BodyWrites) = 1

\* C22: 404 FUNCTION_NOT_FOUND is sent only when no entry file exists for the
\* requested name; a fault raised while loading an entry file that exists
\* (a file-not-found raised by the module's top-level code included) or raised by
\* the handler never produces 404.
C22_NotFoundOnlyWithoutEntry ==
    (trace.op = "invoke" /\ \E i \in StatusLines : wire[i].code = 404) =>
        /\ InvokedObject
        /\ Get(request, "function", PyNone).kind = "string"
        /\ ~EntryExists

====
